---- MODULE Spec2Model ----
(***************************************************************************)
(* Model of addons/xivparty/resize_textures.py: the XivParty texture       *)
(* resizer.  The file system is a function from paths (sequences of path   *)
(* components) to file contents; main and resize_to_pow2 are modelled one  *)
(* statement (one library call) per action, so that every state between    *)
(* two side effects is a reachable state of the model.                     *)
(***************************************************************************)
EXTENDS Integers, Sequences, FiniteSets, TLC

\* ------------------------------------------------------------------ bounds
\* Image widths and heights are drawn from 1..MaxDim.
MaxDim == 3
\* Number of successive runs of main.
MaxRuns == 2
\* next_pow2 is exercised on its own for every n in 1..MaxN.
MaxN == 40

VARIABLES
  fs,             \* the files: path -> content
  dirs,           \* the directories that exist
  orig,           \* history: fs before the first run
  runStart,       \* history: fs when the current run of main started
  run,            \* number of the current run of main
  pc,             \* the statement main / resize_to_pow2 is at
  exit_status,    \* -1 while running, 0 normal completion, 1 exit(1) / traceback
  png_files,      \* main: list(assets_dir.rglob("*.png"))
  idx,            \* main: position of the for loop in png_files
  resized_count,  \* main
  skipped_count,  \* main
  errors,         \* main: list of (path, message)
  img,            \* resize_to_pow2: the opened image
  new_img,        \* resize_to_pow2: the resized image
  orig_size,      \* resize_to_pow2: (orig_width, orig_height)
  new_size,       \* resize_to_pow2: (new_width, new_height)
  calls,          \* history: calls of resize_to_pow2 per path in this run
  rets,           \* history: what the call on each path returned or raised
  backedUp,       \* history: paths whose copy into the backup finished, this run
  wrote,          \* history: paths opened for writing, this run
  prev_ok,        \* history: the previous run ended in the summary with no error
  pn, pp, ppc     \* next_pow2 run on its own: n, p, and the loop position

mainVars == <<fs, dirs, orig, runStart, run, pc, exit_status, png_files, idx,
              resized_count, skipped_count, errors, img, new_img, orig_size, new_size, calls, rets,
              backedUp, wrote, prev_ok>>
powVars == <<pn, pp, ppc>>
vars == <<fs, dirs, orig, runStart, run, pc, exit_status, png_files, idx,
          resized_count, skipped_count, errors, img, new_img, orig_size, new_size, calls, rets,
          backedUp, wrote, prev_ok, pn, pp, ppc>>

\* ------------------------------------------------------- dimension classifier
RECURSIVE BitAnd(_, _)
\* Python's a & b on non-negative integers.
BitAnd(a, b) ==
  IF a = 0 \/ b = 0 THEN 0
  ELSE (IF a % 2 = 1 /\ b % 2 = 1 THEN 1 ELSE 0) + 2 * BitAnd(a \div 2, b \div 2)

\* Variant of is_pow2 that takes 1 for no power of two.
is_pow2_from2(n) == n > 1 /\ BitAnd(n, n - 1) = 0
\* is_pow2: n > 0 and (n & (n - 1)) == 0
is_pow2(n) == n > 0 /\ BitAnd(n, n - 1) = 0

\* Variant of the loop test that goes on while p <= n.
LoopCondLe(p, n) == p <= n
\* The loop test of next_pow2: while p < n
LoopCond(p, n) == p < n

\* Variant of the loop body that triples p.
LoopBodyTriple(p) == p * 3
\* The loop body of next_pow2: p *= 2
LoopBody(p) == p * 2

RECURSIVE Pow2Loop(_, _)
Pow2Loop(p, n) == IF LoopCond(p, n) THEN Pow2Loop(LoopBody(p), n) ELSE p

\* next_pow2: p = 1; while p < n: p *= 2; return p
next_pow2(n) == Pow2Loop(1, n)

\* Variant of the POW2 test with "or" for "and".
AlreadyPow2Either(im) == is_pow2(im.w) \/ is_pow2(im.h)
\* if is_pow2(orig_width) and is_pow2(orig_height)
AlreadyPow2(im) == is_pow2(im.w) /\ is_pow2(im.h)

\* Variant of the target size that takes both axes from the width.
NewSizeFromWidth(im) == <<next_pow2(im.w), next_pow2(im.w)>>
\* new_width = next_pow2(orig_width); new_height = next_pow2(orig_height)
NewSize(im) == <<next_pow2(im.w), next_pow2(im.h)>>

\* ----------------------------------------------------------------- paths
\* Path(__file__).parent
script_dir == <<"xivparty">>
\* script_dir / "assets"
assets_dir == script_dir \o <<"assets">>
\* script_dir / "backup_npot"
backup_dir == script_dir \o <<"backup_npot">>

\* os.path.dirname
dirname(p) == SubSeq(p, 1, Len(p) - 1)
\* os.path.join (second argument relative)
join(a, b) == a \o b

\* Length of the longest common prefix of two paths.
CommonLen(a, b) ==
  LET m == IF Len(a) < Len(b) THEN Len(a) ELSE Len(b)
      S == {k \in 0..m : \A i \in 1..k : a[i] = b[i]}
  IN CHOOSE k \in S : \A j \in S : j <= k

\* os.path.relpath(path, start): ".." for what is left of start, then the rest of path
relpath(path, start) ==
  LET c == CommonLen(path, start)
  IN [i \in 1..(Len(start) - c) |-> ".."] \o SubSeq(path, c + 1, Len(path))

\* Path.relative_to(base), for a path under base
relative_to(p, base) == SubSeq(p, Len(base) + 1, Len(p))

\* Variant of the backup path that is relative to the assets directory.
BackupPathFlat(img_path, bdir) == join(bdir, relative_to(img_path, join(dirname(bdir), <<"assets">>)))
\* rel_path and backup_path of resize_to_pow2(img_path, backup_dir)
BackupPath(img_path, bdir) == join(bdir, relpath(img_path, dirname(bdir)))

\* All the directories os.makedirs(d, exist_ok=True) leaves existing.
Ancestors(d) == {SubSeq(d, 1, k) : k \in 1..Len(d)}

\* --------------------------------------------------------------- contents
\* Paths of the assets, relative to the assets directory.
RelNames == << <<"a.png">>, <<"bars", "b.png">>, <<"bars", "hp", "c.png">> >>
AssetPath(i) == join(assets_dir, RelNames[i])
AssetPaths == {AssetPath(i) : i \in 1..Len(RelNames)}
\* The files of a populated assets directory whose contents are left open.
FileIds == {1, 2}

Modes == {"RGB", "RGBA"}
Dims == 1..MaxDim

\* A PNG as first installed: file i, w x h pixels, pixel format m.
OrigPng(i, w, h, m) == [k |-> "png", w |-> w, h |-> h, mode |-> m, of |-> i, enc |-> "orig"]
\* Non-image bytes in a file named .png.
Junk(i) == [k |-> "junk", w |-> 0, h |-> 0, mode |-> "none", of |-> i, enc |-> "orig"]
\* A file just opened for writing: no bytes.
Empty == [k |-> "empty", w |-> 0, h |-> 0, mode |-> "none", of |-> 0, enc |-> "none"]
\* Some first bytes of c, the header among them, the rest missing.
Partial(c) == [c EXCEPT !.k = "part"]
\* What new_img.save(path, 'PNG') writes for image im.
Encoded(im) == [k |-> "png", w |-> im.w, h |-> im.h, mode |-> im.mode, of |-> im.of, enc |-> "pil"]

InitialContents(i) ==
  {OrigPng(i, w, h, m) : w \in Dims, h \in Dims, m \in Modes} \cup {Junk(i)}

\* Image.open reads the header only: it succeeds when the header is there.
CanOpen(c) == c.k \in {"png", "part"}

NoImg == [w |-> 0, h |-> 0, mode |-> "none", of |-> 0, complete |-> FALSE]
\* The image object Image.open returns; pixel data is loaded later, on demand.
Opened(c) == [w |-> c.w, h |-> c.h, mode |-> c.mode, of |-> c.of, complete |-> (c.k = "png")]

Put(f, p, c) == [q \in (DOMAIN f) \cup {p} |-> IF q = p THEN c ELSE f[q]]
NoFiles == [q \in {} |-> Empty]

Perms(S) == {s \in [1..Cardinality(S) -> S] : \A i, j \in 1..Cardinality(S) : s[i] = s[j] => i = j}

\* str(e): the text of the exception raised by the named call.  The model keeps
\* one text for a file that is not an image and one for every other failure.
ExcText(call) == IF call = "open" THEN "cannot identify image file" ELSE "error"

NoRet == <<"none">>
Raised(msg) == <<"raised", msg>>
Returned(was, o, n) == <<"returned", was, o, n>>

\* ------------------------------------------------------------------- Init
RunLocals ==
  /\ pc = "start"
  /\ exit_status = -1
  /\ png_files = <<>>
  /\ idx = 1
  /\ resized_count = 0
  /\ skipped_count = 0
  /\ errors = <<>>
  /\ img = NoImg
  /\ new_img = NoImg
  /\ orig_size = <<0, 0>>
  /\ new_size = <<0, 0>>
  /\ calls = [p \in AssetPaths |-> 0]
  /\ rets = [p \in AssetPaths |-> NoRet]
  /\ backedUp = {}
  /\ wrote = {}

PowIdle == pn = 0 /\ pp = 0 /\ ppc = "off"

\* The resizer not running: the state of the main variables while next_pow2 is
\* exercised on its own.
MainIdle ==
  /\ fs = NoFiles
  /\ dirs = {script_dir}
  /\ orig = NoFiles
  /\ runStart = NoFiles
  /\ run = 0
  /\ prev_ok = FALSE
  /\ pc = "off"
  /\ exit_status = -1
  /\ png_files = <<>>
  /\ idx = 1
  /\ resized_count = 0
  /\ skipped_count = 0
  /\ errors = <<>>
  /\ img = NoImg
  /\ new_img = NoImg
  /\ orig_size = <<0, 0>>
  /\ new_size = <<0, 0>>
  /\ calls = [p \in AssetPaths |-> 0]
  /\ rets = [p \in AssetPaths |-> NoRet]
  /\ backedUp = {}
  /\ wrote = {}

Init ==
  /\ \/ \* no assets directory; the backup directory may be there from before
        /\ fs = NoFiles
        /\ dirs \in {{script_dir}, {script_dir, backup_dir}}
     \/ \* an empty assets directory
        /\ fs = NoFiles
        /\ dirs = {script_dir, assets_dir}
     \/ \* the first two files of RelNames, each with any content
        /\ \E c \in [FileIds -> UNION {InitialContents(i) : i \in FileIds}] :
             /\ \A i \in FileIds : c[i] \in InitialContents(i)
             /\ fs = [p \in {AssetPath(i) : i \in FileIds} |->
                        c[CHOOSE i \in FileIds : AssetPath(i) = p]]
        /\ dirs = {script_dir} \cup UNION {Ancestors(dirname(AssetPath(i))) : i \in FileIds}
     \/ \* a mixed batch of three: 377x21 (NPOT), 256x256 (POW2), and not an image
        /\ fs = [p \in AssetPaths |->
                   IF p = AssetPath(1) THEN OrigPng(1, 377, 21, "RGB")
                   ELSE IF p = AssetPath(2) THEN OrigPng(2, 256, 256, "RGBA")
                   ELSE Junk(3)]
        /\ dirs = {script_dir} \cup UNION {Ancestors(dirname(p)) : p \in AssetPaths}
  /\ orig = fs
  /\ runStart = fs
  /\ run = 1
  /\ prev_ok = FALSE
  /\ RunLocals
  /\ PowIdle

\* ------------------------------------------------------------------- main
png_path == png_files[idx]

\* Variant of the except clause that is outside the loop: an exception ends the loop.
ExceptAbort(call) ==
  /\ errors' = Append(errors, <<png_path, ExcText(call)>>)
  /\ rets' = [rets EXCEPT ![png_path] = Raised(ExcText(call))]
  /\ pc' = "summary"
  /\ UNCHANGED idx
  /\ img' = NoImg
  /\ new_img' = NoImg
  /\ orig_size' = <<0, 0>>
  /\ new_size' = <<0, 0>>
  /\ UNCHANGED <<resized_count, skipped_count>>
\* The except clause of main's loop, and the step to the next file.
Except(call) ==
  /\ errors' = Append(errors, <<png_path, ExcText(call)>>)
  /\ rets' = [rets EXCEPT ![png_path] = Raised(ExcText(call))]
  /\ pc' = "loop"
  /\ idx' = idx + 1
  /\ img' = NoImg
  /\ new_img' = NoImg
  /\ orig_size' = <<0, 0>>
  /\ new_size' = <<0, 0>>
  /\ UNCHANGED <<resized_count, skipped_count>>

\* Variant of main without the test for the assets directory.
CheckAssetsNever ==
  /\ pc = "start"
  /\ pc' = "mkdir"
  /\ UNCHANGED <<fs, dirs, orig, runStart, run, exit_status, png_files, idx, resized_count,
                 skipped_count, errors, img, new_img, orig_size, new_size, calls, rets, backedUp, wrote>>
  /\ UNCHANGED <<prev_ok, pn, pp, ppc>>
\* if not assets_dir.exists(): print(...); exit(1)
CheckAssets ==
  /\ pc = "start"
  /\ IF assets_dir \in dirs
       THEN pc' = "mkdir" /\ UNCHANGED exit_status
       ELSE pc' = "exit" /\ exit_status' = 1
  /\ UNCHANGED <<fs, dirs, orig, runStart, run, png_files, idx, resized_count,
                 skipped_count, errors, img, new_img, orig_size, new_size, calls, rets, backedUp, wrote>>
  /\ UNCHANGED <<prev_ok, pn, pp, ppc>>

\* backup_dir.mkdir(exist_ok=True); an OSError here is not caught
MkBackupDir ==
  /\ pc = "mkdir"
  /\ \/ /\ dirs' = dirs \cup {backup_dir}
        /\ pc' = "discover"
        /\ UNCHANGED exit_status
     \/ /\ backup_dir \notin dirs
        /\ pc' = "exit"
        /\ exit_status' = 1
        /\ UNCHANGED dirs
  /\ UNCHANGED <<fs, orig, runStart, run, png_files, idx, resized_count,
                 skipped_count, errors, img, new_img, orig_size, new_size, calls, rets, backedUp, wrote>>
  /\ UNCHANGED <<prev_ok, pn, pp, ppc>>

\* png_files = list(assets_dir.rglob("*.png")), in whatever order the walk yields
Discover ==
  /\ pc = "discover"
  /\ \E s \in Perms({p \in DOMAIN fs : CommonLen(p, assets_dir) = Len(assets_dir)}) :
       png_files' = s
  /\ pc' = "loop"
  /\ UNCHANGED <<fs, dirs, orig, runStart, run, exit_status, idx, resized_count,
                 skipped_count, errors, img, new_img, orig_size, new_size, calls, rets, backedUp, wrote>>
  /\ UNCHANGED <<prev_ok, pn, pp, ppc>>

\* for png_path in png_files: ... ; after the last file, the summary
LoopEnd ==
  /\ pc = "loop"
  /\ idx > Len(png_files)
  /\ pc' = "summary"
  /\ UNCHANGED <<fs, dirs, orig, runStart, run, exit_status, png_files, idx,
                 resized_count, skipped_count, errors, img, new_img, orig_size, new_size, calls, rets,
                 backedUp, wrote>>
  /\ UNCHANGED <<prev_ok, pn, pp, ppc>>

\* the summary block; main returns and the process ends with status 0
Summary ==
  /\ pc = "summary"
  /\ pc' = "done"
  /\ exit_status' = 0
  /\ UNCHANGED <<fs, dirs, orig, runStart, run, png_files, idx, resized_count,
                 skipped_count, errors, img, new_img, orig_size, new_size, calls, rets, backedUp, wrote>>
  /\ UNCHANGED <<prev_ok, pn, pp, ppc>>

\* The tool is invoked again over the same directory.
StartRun ==
  /\ pc \in {"done", "exit"}
  /\ run < MaxRuns
  /\ run' = run + 1
  /\ runStart' = fs
  /\ pc' = "start"
  /\ exit_status' = -1
  /\ png_files' = <<>>
  /\ idx' = 1
  /\ resized_count' = 0
  /\ skipped_count' = 0
  /\ errors' = <<>>
  /\ img' = NoImg
  /\ new_img' = NoImg
  /\ orig_size' = <<0, 0>>
  /\ new_size' = <<0, 0>>
  /\ calls' = [p \in AssetPaths |-> 0]
  /\ rets' = [p \in AssetPaths |-> NoRet]
  /\ backedUp' = {}
  /\ wrote' = {}
  /\ prev_ok' = (pc = "done" /\ errors = <<>>)
  /\ UNCHANGED <<fs, dirs, orig>>
  /\ UNCHANGED powVars

\* --------------------------------------------------------- resize_to_pow2
\* main's call; img = Image.open(img_path); the size; the POW2 test and early return;
\* new_width, new_height
Open ==
  /\ pc = "loop"
  /\ idx <= Len(png_files)
  /\ calls' = [calls EXCEPT ![png_path] = @ + 1]
  /\ \/ \* Image.open raises: the file is not an image
        /\ ~CanOpen(fs[png_path])
        /\ Except("open")
        /\ UNCHANGED <<fs, dirs, backedUp, wrote>>
     \/ /\ CanOpen(fs[png_path])
        /\ LET im == Opened(fs[png_path]) IN
             IF AlreadyPow2(im)
               THEN \* return False, size, size; main: skipped_count += 1
                    /\ rets' = [rets EXCEPT ![png_path] = Returned(FALSE, <<im.w, im.h>>, <<im.w, im.h>>)]
                    /\ skipped_count' = skipped_count + 1
                    /\ idx' = idx + 1
                    /\ pc' = "loop"
                    /\ UNCHANGED <<img, new_img, orig_size, new_size, resized_count, errors>>
               ELSE /\ img' = im
                    /\ orig_size' = <<im.w, im.h>>
                    /\ new_size' = NewSize(im)
                    /\ pc' = "makedirs"
                    /\ UNCHANGED <<idx, rets, resized_count, skipped_count, errors, new_img>>
        /\ UNCHANGED <<fs, dirs, backedUp, wrote>>
  /\ UNCHANGED <<orig, runStart, run, exit_status, png_files>>
  /\ UNCHANGED <<prev_ok, pn, pp, ppc>>

backup_path == BackupPath(png_path, backup_dir)

\* os.makedirs(os.path.dirname(backup_path), exist_ok=True)
MakeDirs ==
  /\ pc = "makedirs"
  /\ \/ /\ dirs' = dirs \cup Ancestors(dirname(backup_path))
        /\ pc' = "copy_open"
        /\ UNCHANGED <<idx, rets, errors, img, new_img, orig_size, new_size, resized_count, skipped_count>>
     \/ /\ Except("makedirs")
        /\ UNCHANGED dirs
  /\ UNCHANGED <<fs, orig, runStart, run, exit_status, png_files, calls, backedUp, wrote>>
  /\ UNCHANGED <<prev_ok, pn, pp, ppc>>

\* shutil.copy2, first part: open the source and open (truncate) the destination
CopyOpen ==
  /\ pc = "copy_open"
  /\ \/ /\ fs' = Put(fs, backup_path, Empty)
        /\ wrote' = wrote \cup {backup_path}
        /\ pc' = "copy_data"
        /\ UNCHANGED <<idx, rets, errors, img, new_img, orig_size, new_size, resized_count, skipped_count>>
     \/ /\ Except("copy_open")
        /\ UNCHANGED <<fs, wrote>>
  /\ UNCHANGED <<dirs, orig, runStart, run, exit_status, png_files, calls, backedUp>>
  /\ UNCHANGED <<prev_ok, pn, pp, ppc>>

\* Variant of the copy that reports success and writes no byte.
CopyDataNothing ==
  /\ pc = "copy_data"
  /\ pc' = "copystat"
  /\ backedUp' = backedUp \cup {png_path}
  /\ UNCHANGED <<fs, idx, rets, errors, img, new_img, orig_size, new_size, resized_count, skipped_count>>
  /\ UNCHANGED <<dirs, orig, runStart, run, exit_status, png_files, calls, wrote>>
  /\ UNCHANGED <<prev_ok, pn, pp, ppc>>
\* shutil.copy2, second part: copy the bytes
CopyData ==
  /\ pc = "copy_data"
  /\ \/ /\ fs' = Put(fs, backup_path, fs[png_path])
        /\ backedUp' = backedUp \cup {png_path}
        /\ pc' = "copystat"
        /\ UNCHANGED <<idx, rets, errors, img, new_img, orig_size, new_size, resized_count, skipped_count>>
     \/ \* the copy stops part way (disk full, I/O error): what was written stays
        /\ fs' = Put(fs, backup_path, Partial(fs[png_path]))
        /\ Except("copy_data")
        /\ UNCHANGED backedUp
  /\ UNCHANGED <<dirs, orig, runStart, run, exit_status, png_files, calls, wrote>>
  /\ UNCHANGED <<prev_ok, pn, pp, ppc>>

\* shutil.copy2, last part: copystat (timestamps, permission bits)
CopyStat ==
  /\ pc = "copystat"
  /\ \/ /\ pc' = "convert"
        /\ UNCHANGED <<idx, rets, errors, img, new_img, orig_size, new_size, resized_count, skipped_count>>
     \/ Except("copystat")
  /\ UNCHANGED <<fs, dirs, orig, runStart, run, exit_status, png_files, calls, backedUp, wrote>>
  /\ UNCHANGED <<prev_ok, pn, pp, ppc>>

\* if img.mode != 'RGBA': img = img.convert('RGBA')
Convert ==
  /\ pc = "convert"
  /\ \/ /\ img.mode = "RGBA"
        /\ pc' = "resize"
        /\ UNCHANGED <<idx, rets, errors, img, new_img, orig_size, new_size, resized_count, skipped_count>>
     \/ /\ img.mode # "RGBA"
        /\ img.complete
        /\ img' = [img EXCEPT !.mode = "RGBA"]
        /\ pc' = "resize"
        /\ UNCHANGED <<idx, rets, errors, new_img, orig_size, new_size, resized_count, skipped_count>>
     \/ \* convert loads the pixel data: a truncated file, or no memory
        /\ img.mode # "RGBA"
        /\ Except("convert")
  /\ UNCHANGED <<fs, dirs, orig, runStart, run, exit_status, png_files, calls, backedUp, wrote>>
  /\ UNCHANGED <<prev_ok, pn, pp, ppc>>

\* new_img = img.resize((new_width, new_height), Image.Resampling.LANCZOS)
Resize ==
  /\ pc = "resize"
  /\ \/ /\ img.complete
        /\ new_img' = [img EXCEPT !.w = new_size[1], !.h = new_size[2]]
        /\ pc' = "save_open"
        /\ UNCHANGED <<idx, rets, errors, img, orig_size, new_size, resized_count, skipped_count>>
     \/ Except("resize")
  /\ UNCHANGED <<fs, dirs, orig, runStart, run, exit_status, png_files, calls, backedUp, wrote>>
  /\ UNCHANGED <<prev_ok, pn, pp, ppc>>

\* new_img.save(img_path, 'PNG'), first part: open(img_path, "w+b")
SaveOpen ==
  /\ pc = "save_open"
  /\ \/ /\ fs' = Put(fs, png_path, Empty)
        /\ wrote' = wrote \cup {png_path}
        /\ pc' = "save_data"
        /\ UNCHANGED <<idx, rets, errors, img, new_img, orig_size, new_size, resized_count, skipped_count>>
     \/ /\ Except("save_open")
        /\ UNCHANGED <<fs, wrote>>
  /\ UNCHANGED <<dirs, orig, runStart, run, exit_status, png_files, calls, backedUp>>
  /\ UNCHANGED <<prev_ok, pn, pp, ppc>>

\* Variant of the save after which main does not count the file as resized.
SaveDataUncounted ==
  /\ pc = "save_data"
  /\ fs' = Put(fs, png_path, Encoded(new_img))
  /\ rets' = [rets EXCEPT ![png_path] =
                Returned(TRUE, orig_size, new_size)]
  /\ idx' = idx + 1
  /\ pc' = "loop"
  /\ img' = NoImg
  /\ new_img' = NoImg
  /\ orig_size' = <<0, 0>>
  /\ new_size' = <<0, 0>>
  /\ UNCHANGED <<resized_count, skipped_count, errors>>
  /\ UNCHANGED <<dirs, orig, runStart, run, exit_status, png_files, calls, backedUp, wrote>>
  /\ UNCHANGED <<prev_ok, pn, pp, ppc>>
\* new_img.save, second part: write the PNG; return True, ...; main: resized_count += 1
SaveData ==
  /\ pc = "save_data"
  /\ \/ /\ fs' = Put(fs, png_path, Encoded(new_img))
        /\ rets' = [rets EXCEPT ![png_path] =
                      Returned(TRUE, orig_size, new_size)]
        /\ resized_count' = resized_count + 1
        /\ idx' = idx + 1
        /\ pc' = "loop"
        /\ img' = NoImg
        /\ new_img' = NoImg
        /\ orig_size' = <<0, 0>>
        /\ new_size' = <<0, 0>>
        /\ UNCHANGED <<skipped_count, errors>>
     \/ \* the write stops part way: the file stays empty or truncated
        /\ \E c \in {Empty, Partial(Encoded(new_img))} : fs' = Put(fs, png_path, c)
        /\ Except("save_data")
  /\ UNCHANGED <<dirs, orig, runStart, run, exit_status, png_files, calls, backedUp, wrote>>
  /\ UNCHANGED <<prev_ok, pn, pp, ppc>>

\* ------------------------------------------------------------------- Next
Next ==
  \/ CheckAssets
  \/ MkBackupDir
  \/ Discover
  \/ Open
  \/ MakeDirs
  \/ CopyOpen
  \/ CopyData
  \/ CopyStat
  \/ Convert
  \/ Resize
  \/ SaveOpen
  \/ SaveData
  \/ LoopEnd
  \/ Summary
  \/ StartRun

Spec == Init /\ [][Next]_vars

\* One run of main: everything but a new invocation.
RunNext ==
  \/ CheckAssets
  \/ MkBackupDir
  \/ Discover
  \/ Open
  \/ MakeDirs
  \/ CopyOpen
  \/ CopyData
  \/ CopyStat
  \/ Convert
  \/ Resize
  \/ SaveOpen
  \/ SaveData
  \/ LoopEnd
  \/ Summary

RunSpec == Init /\ [][RunNext]_vars

\* The interpreter runs the program: a statement that can run does run.
RunFairSpec == RunSpec /\ WF_vars(RunNext)

\* ------------------------------------------------- next_pow2, step by step
\* def next_pow2(n): p = 1
PowEnter ==
  /\ ppc = "entry"
  /\ pp' = 1
  /\ ppc' = "while"
  /\ UNCHANGED pn
  /\ UNCHANGED mainVars

\* while p < n: p *= 2
PowIterate ==
  /\ ppc = "while"
  /\ LoopCond(pp, pn)
  /\ pp' = LoopBody(pp)
  /\ UNCHANGED <<pn, ppc>>
  /\ UNCHANGED mainVars

\* return p
PowReturn ==
  /\ ppc = "while"
  /\ ~LoopCond(pp, pn)
  /\ ppc' = "ret"
  /\ UNCHANGED <<pn, pp>>
  /\ UNCHANGED mainVars

PowInit ==
  /\ MainIdle
  /\ pn \in 1..MaxN
  /\ pp = 0
  /\ ppc = "entry"

PowNext ==
  \/ PowEnter
  \/ PowIterate
  \/ PowReturn

PowSpec == PowInit /\ [][PowNext]_vars

\* A call that can take a step takes it.
PowFairSpec == PowSpec /\ WF_vars(PowNext)

\* ------------------------------------------------------ words of the claims
\* n is a power of two, stated without the code's bit test.
RECURSIVE IsPowerOfTwo(_)
IsPowerOfTwo(n) == n = 1 \/ (n > 1 /\ n % 2 = 0 /\ IsPowerOfTwo(n \div 2))

\* The smallest power of two that is at least n, stated without the code's loop.
SmallestPow2AtLeast(n) ==
  CHOOSE q \in n..(2 * n) : IsPowerOfTwo(q) /\ \A r \in n..(q - 1) : ~IsPowerOfTwo(r)

\* Content c decodes to dimensions that are both powers of two / not both.
DecodesPOW2(c) == CanOpen(c) /\ IsPowerOfTwo(c.w) /\ IsPowerOfTwo(c.h)
DecodesNPOT(c) == CanOpen(c) /\ ~(IsPowerOfTwo(c.w) /\ IsPowerOfTwo(c.h))

HasReturned(p) == rets[p][1] = "returned"
HasRaised(p) == rets[p][1] = "raised"
WasResized(p) == HasReturned(p) /\ rets[p][2] = TRUE

\* The path the code gives the backup of asset p: backup_npot/assets/<rel>.
MirrorUnderScriptDir(p) == backup_dir \o <<"assets">> \o relative_to(p, assets_dir)
\* The path relative to the assets root, put under the backup root: backup_npot/<rel>.
MirrorUnderAssets(p) == backup_dir \o relative_to(p, assets_dir)

InCall == pc \in {"makedirs", "copy_open", "copy_data", "copystat", "convert",
                  "resize", "save_open", "save_data"}

\* ------------------------------------------------------------------- C1
\* C1 as stated: every file whose processing has ended has been copied into the
\* backup directory if and only if its decoded dimensions are NPOT, and a POW2
\* file is never backed up and never written.
C1_BackedUpIffNPOT ==
  \A p \in DOMAIN orig :
    /\ rets[p] # NoRet => (p \in backedUp <=> DecodesNPOT(runStart[p]))
    /\ DecodesPOW2(runStart[p]) => p \notin backedUp /\ p \notin wrote

\* C1 as amended: a file has been copied into the backup directory only if
\* its decoded dimensions are NPOT; a file on which resize_to_pow2 returned has
\* been copied if and only if its dimensions are NPOT; a file is opened for
\* writing only after its copy finished; a POW2 file is never backed up, never
\* written, and nothing is written at its backup path.
C1_BackedUpOnlyIfNPOT ==
  \A p \in DOMAIN orig :
    /\ p \in backedUp => DecodesNPOT(runStart[p])
    /\ HasReturned(p) => (p \in backedUp <=> DecodesNPOT(runStart[p]))
    /\ p \in wrote => p \in backedUp
    /\ DecodesPOW2(runStart[p]) =>
         /\ p \notin backedUp
         /\ p \notin wrote
         /\ BackupPath(p, backup_dir) \notin wrote
         /\ fs[p] = runStart[p]

\* An NPOT file has been copied and rewritten, a POW2 file has been skipped.
C1_Witness ==
  /\ pc = "done"
  /\ \E p, q \in DOMAIN orig :
       /\ p \in backedUp /\ p \in wrote /\ WasResized(p)
       /\ DecodesPOW2(runStart[q]) /\ HasReturned(q) /\ q \notin backedUp

\* ------------------------------------------------------------------- C2
\* C2: in every reachable state, an asset whose bytes are no longer the
\* original ones (its path has been opened for writing) has a backup that holds
\* the original bytes: the copy finished before the write began.
C2_BackupBeforeWrite ==
  \A p \in DOMAIN orig :
    /\ fs[p] # orig[p] =>
         /\ BackupPath(p, backup_dir) \in DOMAIN fs
         /\ fs[BackupPath(p, backup_dir)] = orig[p]
    /\ p \in wrote =>
         /\ p \in backedUp
         /\ BackupPath(p, backup_dir) \in DOMAIN fs
         /\ fs[BackupPath(p, backup_dir)] = runStart[p]

\* The save has truncated the asset and not yet written it: the process may stop here.
C2_Witness ==
  /\ pc = "save_data"
  /\ fs[png_path] = Empty
  /\ fs[BackupPath(png_path, backup_dir)] = orig[png_path]

\* ------------------------------------------------------------------- C3
\* The state part of C3: no file is passed to resize_to_pow2 twice, a file whose
\* processing raised has exactly one error entry (its path, a message) and any
\* other file none, and at the summary every discovered file has been passed to
\* resize_to_pow2 exactly once.
C3_State ==
  /\ \A p \in DOMAIN calls : calls[p] <= 1
  /\ \A p \in DOMAIN orig :
       Cardinality({i \in 1..Len(errors) : errors[i][1] = p}) = (IF HasRaised(p) THEN 1 ELSE 0)
  /\ \A i \in 1..Len(errors) : errors[i] = <<errors[i][1], rets[errors[i][1]][2]>>
  /\ pc \in {"summary", "done"} =>
       /\ \A p \in {q \in DOMAIN fs : CommonLen(q, assets_dir) = Len(assets_dir)} : calls[p] = 1
       /\ Len(png_files) = Cardinality({q \in DOMAIN fs : CommonLen(q, assets_dir) = Len(assets_dir)})

\* C3: an exception raised while one file is processed is recorded as one
\* (path, message) entry, every remaining file is still passed to
\* resize_to_pow2 exactly once, and the run reaches the summary.
C3_ErrorsDoNotStopTheRun ==
  /\ []C3_State
  /\ (pc = "loop" \/ InCall) ~> (pc = "summary")

\* The first file raised, the second was still processed, and the summary is reached.
C3_Witness ==
  /\ pc = "summary"
  /\ Len(png_files) >= 2
  /\ HasRaised(png_files[1])
  /\ HasReturned(png_files[2])
  /\ Len(errors) = 1

\* ------------------------------------------------------------------- C4
\* C4: while the assets directory does not exist, main only goes from its start
\* to exit(1): no step creates a directory or changes a file, no file is
\* discovered or processed, and the run ends with status 1.
C4_MissingAssetsIsFatal ==
  /\ [](assets_dir \notin dirs =>
          /\ pc \in {"start", "exit"}
          /\ pc = "exit" => exit_status = 1
          /\ png_files = <<>>
          /\ \A p \in DOMAIN calls : calls[p] = 0
          /\ fs = orig)
  /\ [][assets_dir \notin dirs => dirs' = dirs /\ fs' = fs]_vars
  /\ (assets_dir \notin dirs /\ pc = "start") ~> (pc = "exit" /\ exit_status = 1)

\* The run has ended with status 1 and there is still no backup directory.
C4_Witness ==
  /\ pc = "exit"
  /\ exit_status = 1
  /\ assets_dir \notin dirs
  /\ backup_dir \notin dirs

\* ------------------------------------------------------------------- C5
\* C5: when resize_to_pow2 has returned "resized" for a file of original size
\* (w, h), w, h >= 1 and not both powers of two, the file at the original path
\* is a complete PNG of size (smallest power of two >= w, smallest power of two
\* >= h), both powers of two, which is (next_pow2(w), next_pow2(h)), and the call
\* returned (True, (w, h), (next_pow2(w), next_pow2(h))).
C5_ResizedToNextPow2 ==
  \A p \in DOMAIN orig :
    WasResized(p) =>
      LET c == runStart[p] IN
        /\ c.w >= 1 /\ c.h >= 1
        /\ DecodesNPOT(c)
        /\ fs[p].k = "png"
        /\ fs[p].w = SmallestPow2AtLeast(c.w)
        /\ fs[p].h = SmallestPow2AtLeast(c.h)
        /\ IsPowerOfTwo(fs[p].w) /\ IsPowerOfTwo(fs[p].h)
        /\ <<fs[p].w, fs[p].h>> = <<next_pow2(c.w), next_pow2(c.h)>>
        /\ rets[p] = Returned(TRUE, <<c.w, c.h>>, <<SmallestPow2AtLeast(c.w), SmallestPow2AtLeast(c.h)>>)

\* A file with one axis NPOT and the other POW2 has been resized: the axes end different.
C5_Witness ==
  \E p \in DOMAIN orig :
    /\ WasResized(p)
    /\ runStart[p].w # runStart[p].h
    /\ fs[p].w # fs[p].h

\* ------------------------------------------------------------------- C6
\* C6 as stated: the backup of the asset at <assets root>/<rel> is at
\* <backup root>/<rel> and holds the bytes the asset had before the run.
C6_BackupAtRelOfAssetsRoot ==
  \A p \in backedUp :
    /\ MirrorUnderAssets(p) \in DOMAIN fs
    /\ fs[MirrorUnderAssets(p)] = runStart[p]

\* C6 as amended: the backup of the asset at <assets root>/<rel>, once its copy
\* has finished, is at <backup root>/assets/<rel> (the asset's path relative
\* to the directory that holds the backup root, so it keeps the leading
\* "assets"), holds the bytes the asset had before the run, and nothing is
\* written at <backup root>/<rel>.
C6_BackupAtRelOfScriptDir ==
  \A p \in backedUp :
    /\ MirrorUnderScriptDir(p) \in DOMAIN fs
    /\ fs[MirrorUnderScriptDir(p)] = runStart[p]
    /\ dirname(MirrorUnderScriptDir(p)) \in dirs
    /\ MirrorUnderAssets(p) \notin DOMAIN fs

\* An asset in a subdirectory has been backed up and then rewritten.
C6_Witness ==
  \E p \in backedUp :
    /\ Len(relative_to(p, assets_dir)) > 1
    /\ WasResized(p)
    /\ fs[MirrorUnderScriptDir(p)] # fs[p]

\* ------------------------------------------------------------------- C7
\* The state part of C7: the value next_pow2(n) returns is a power of two (by
\* is_pow2 and by definition), is at least n, no power of two lies in [n, p),
\* it is n itself when n is a power of two, and is_pow2 agrees with the
\* definition of a power of two on n.
C7_State ==
  ppc = "ret" =>
    /\ is_pow2(pp)
    /\ IsPowerOfTwo(pp)
    /\ pp >= pn
    /\ \A q \in pn..(pp - 1) : ~IsPowerOfTwo(q) /\ ~is_pow2(q)
    /\ IsPowerOfTwo(pn) => pp = pn
    /\ is_pow2(pn) <=> IsPowerOfTwo(pn)
    /\ pp = next_pow2(pn)

\* C7: for every n >= 1, next_pow2(n) terminates and returns the smallest power
\* of two p >= n.
C7_NextPow2Smallest ==
  /\ []C7_State
  /\ <>(ppc = "ret")

\* next_pow2 has returned for an n that is not a power of two.
C7_Witness ==
  /\ ppc = "ret"
  /\ pn > 4
  /\ pp > pn

\* ------------------------------------------------------------------- C8
\* C8: a call of resize_to_pow2 on a file whose width and height are both
\* powers of two changes no file and no directory, copies nothing, and returns
\* (False, size, size); this holds of every call, a second one included.
C8_Pow2FileUntouched ==
  [][(pc = "loop" /\ idx <= Len(png_files) /\ DecodesPOW2(fs[png_path])) =>
       /\ fs' = fs
       /\ dirs' = dirs
       /\ backedUp' = backedUp
       /\ wrote' = wrote
       /\ rets'[png_path] = Returned(FALSE, <<fs[png_path].w, fs[png_path].h>>,
                                     <<fs[png_path].w, fs[png_path].h>>)
       /\ pc' = "loop"]_vars

\* In a second run a POW2 original has again been returned unchanged.
C8_Witness ==
  /\ run = 2
  /\ \E p \in DOMAIN orig :
       /\ rets[p] = Returned(FALSE, <<orig[p].w, orig[p].h>>, <<orig[p].w, orig[p].h>>)
       /\ orig[p].k = "png"
       /\ fs[p] = orig[p]
       /\ BackupPath(p, backup_dir) \notin DOMAIN fs

\* ------------------------------------------------------------------- C9
\* C9: at the end of a run, resized is the number of NPOT files rewritten,
\* skipped the number of POW2 files, errors the number of files whose
\* processing raised; every discovered file is in exactly one of the three, and
\* the three add up to the number of discovered files.
C9_CountsPartitionTheFiles ==
  pc \in {"summary", "done"} =>
    LET found == {png_files[i] : i \in 1..Len(png_files)}
        R == {p \in found : DecodesNPOT(runStart[p]) /\ WasResized(p) /\ fs[p].enc = "pil" /\ fs[p].k = "png"}
        S == {p \in found : DecodesPOW2(runStart[p]) /\ HasReturned(p) /\ ~WasResized(p)}
        E == {p \in found : HasRaised(p)}
    IN /\ resized_count = Cardinality(R)
       /\ skipped_count = Cardinality(S)
       /\ Len(errors) = Cardinality(E)
       /\ R \cap S = {} /\ R \cap E = {} /\ S \cap E = {}
       /\ R \cup S \cup E = found
       /\ Cardinality(found) = Len(png_files)
       /\ resized_count + skipped_count + Len(errors) = Len(png_files)

\* The mixed batch: the 377x21 file is now 512x32 and has a backup, the 256x256
\* file is as it was and has none, the file that is not an image is the one
\* error, and the run has ended with resized = 1, skipped = 1, errors = 1.
C9_Witness ==
  /\ pc = "done"
  /\ Len(png_files) = 3
  /\ resized_count = 1
  /\ skipped_count = 1
  /\ Len(errors) = 1
  /\ errors[1][1] = AssetPath(3)
  /\ <<fs[AssetPath(1)].w, fs[AssetPath(1)].h>> = <<512, 32>>
  /\ fs[BackupPath(AssetPath(1), backup_dir)] = orig[AssetPath(1)]
  /\ fs[AssetPath(2)] = orig[AssetPath(2)]
  /\ BackupPath(AssetPath(2), backup_dir) \notin DOMAIN fs

\* ------------------------------------------------------------------ C10
\* C10 as stated: between runs, a backup file that exists holds the asset's
\* bytes from before the first run; and a run that follows a run without errors
\* resizes nothing and writes no backup.
C10_BackupAlwaysOriginal ==
  /\ pc \in {"done", "exit"} =>
       \A p \in DOMAIN orig :
         BackupPath(p, backup_dir) \in DOMAIN fs => fs[BackupPath(p, backup_dir)] = orig[p]
  /\ prev_ok => resized_count = 0 /\ wrote = {} /\ backedUp = {}

\* C10 as amended: a backup file that exists holds the asset's bytes from
\* before the first run, or an incomplete copy of them (none or some of the
\* bytes, left by a copy that is under way or that raised) while the asset
\* itself still holds them; an asset that no longer holds its original bytes
\* has a backup that does; a backup never holds resized content; and a run that
\* follows a run without errors resizes nothing and writes no backup.
C10_BackupNeverResized ==
  /\ \A p \in DOMAIN orig :
       LET bp == BackupPath(p, backup_dir) IN
         /\ bp \in DOMAIN fs =>
              \/ fs[bp] = orig[p]
              \/ fs[bp] \in {Empty, Partial(orig[p])} /\ fs[p] = orig[p]
         /\ fs[p] # orig[p] => bp \in DOMAIN fs /\ fs[bp] = orig[p]
         /\ bp \in DOMAIN fs => fs[bp].enc # "pil"
  /\ prev_ok => resized_count = 0 /\ wrote = {} /\ backedUp = {}

\* A second run after a run without errors has ended; the backup of a resized
\* asset still holds the original.
C10_Witness ==
  /\ run = 2
  /\ prev_ok
  /\ pc = "done"
  /\ \E p \in DOMAIN orig :
       /\ fs[p].enc = "pil"
       /\ fs[BackupPath(p, backup_dir)] = orig[p]

====
